---- MODULE Spec2Model ----
(***************************************************************************)
(* Model of src/system.c: the particle world of a coarse-grained DNA       *)
(* strand (allocWorld / fillWorld / freeWorld), the velocity-Verlet step   *)
(* (stepWorld -> verlet, thermostat, physicsCheck), the force pass         *)
(* (calculateForces) and the energy pass (calcPotentialEnergies).          *)
(*                                                                         *)
(* Numbers.  A C double is modelled by a reduced floating format: a value  *)
(* is NaN, +Inf, -Inf or a whole number of magnitude <= MaxMag.  The       *)
(* arithmetic follows IEEE-754 on the special values (0/0 = NaN,           *)
(* x/0 = +-Inf, 0*Inf = NaN, Inf-Inf = NaN, every comparison with NaN is   *)
(* false), overflows to +-Inf above MaxMag, and rounds a quotient or a     *)
(* root to a whole number away from zero, so that a result is zero only    *)
(* when the exact result is zero (there is no underflow).  Signed zero is  *)
(* not modelled.  Units: lengths in Angstrom, energies in EPSILON, masses  *)
(* in units of MASS_S; the constants of the source are rounded to this     *)
(* format.                                                                 *)
(*                                                                         *)
(* The build is the default one: assert() is active, a failed assertion    *)
(* aborts the process (pc = "abort", crash names the assertion).           *)
(***************************************************************************)
EXTENDS Integers, Sequences, FiniteSets, TLC

MaxMag == 1000000
MaxMonomers == 3
MaxSteps == 3

(* ------------------------------------------------------------------ *)
(* doubles                                                              *)
(* ------------------------------------------------------------------ *)
NaN == [fin |-> FALSE, v |-> 0]
PInf == [fin |-> FALSE, v |-> 1]
NInf == [fin |-> FALSE, v |-> -1]

(* the element of a one-element set *)
Only(S) == CHOOSE e \in S : TRUE

Abs(i) == IF i < 0 THEN -i ELSE i
Sgn(i) == IF i < 0 THEN -1 ELSE IF i > 0 THEN 1 ELSE 0
SInf(s) == IF s < 0 THEN NInf ELSE PInf

Fin(i) == IF i > MaxMag THEN PInf ELSE IF i < -MaxMag THEN NInf ELSE [fin |-> TRUE, v |-> i]

Zero == Fin(0)
One == Fin(1)
Two == Fin(2)

IsFin(a) == a.fin
isnan(a) == a = NaN
IsInf(a) == ~a.fin /\ a.v # 0
IsZero(a) == a.fin /\ a.v = 0
(* sign of a non-NaN value *)
SignOf(a) == Sgn(a.v)

fneg(a) == IF a.fin THEN [fin |-> TRUE, v |-> -a.v] ELSE IF isnan(a) THEN NaN ELSE SInf(-a.v)

fadd(a, b) ==
    IF isnan(a) \/ isnan(b) THEN NaN
    ELSE IF a.fin /\ b.fin THEN Fin(a.v + b.v)
    ELSE IF a.fin THEN b
    ELSE IF b.fin THEN a
    ELSE IF a.v = b.v THEN a ELSE NaN

fsub(a, b) == fadd(a, fneg(b))

fmul(a, b) ==
    IF isnan(a) \/ isnan(b) THEN NaN
    ELSE IF a.fin /\ b.fin THEN
        IF a.v = 0 \/ b.v = 0 THEN Zero
        ELSE IF Abs(a.v) > MaxMag \div Abs(b.v) THEN SInf(Sgn(a.v) * Sgn(b.v))
        ELSE Fin(a.v * b.v)
    ELSE IF IsZero(a) \/ IsZero(b) THEN NaN
    ELSE SInf(SignOf(a) * SignOf(b))

(* magnitude of a quotient, rounded away from zero *)
DivUp(n, d) == (n + d - 1) \div d

fdiv(a, b) ==
    IF isnan(a) \/ isnan(b) THEN NaN
    ELSE IF a.fin /\ b.fin THEN
        IF b.v = 0 THEN (IF a.v = 0 THEN NaN ELSE SInf(Sgn(a.v)))
        ELSE Fin(Sgn(a.v) * Sgn(b.v) * DivUp(Abs(a.v), Abs(b.v)))
    ELSE IF a.fin THEN Zero
    ELSE IF b.fin THEN SInf(SignOf(a) * (IF b.v < 0 THEN -1 ELSE 1))
    ELSE NaN

RECURSIVE RootUp(_, _, _)
(* least r in lo..hi with r*r >= n *)
RootUp(n, lo, hi) ==
    IF lo >= hi THEN lo
    ELSE LET mid == (lo + hi) \div 2
         IN IF mid * mid >= n THEN RootUp(n, lo, mid) ELSE RootUp(n, mid + 1, hi)

sqrt(a) ==
    IF isnan(a) THEN NaN
    ELSE IF ~a.fin THEN (IF a.v > 0 THEN PInf ELSE NaN)
    ELSE IF a.v < 0 THEN NaN
    ELSE Fin(RootUp(a.v, 0, IF a.v < 46340 THEN a.v ELSE 46340))

fabs(a) == IF a.fin THEN [fin |-> TRUE, v |-> Abs(a.v)] ELSE IF isnan(a) THEN NaN ELSE PInf

(* a > b and a < b of C: false when either side is NaN *)
fgt(a, b) ==
    IF isnan(a) \/ isnan(b) THEN FALSE
    ELSE IF a.fin /\ b.fin THEN a.v > b.v
    ELSE IF a.fin THEN b = NInf
    ELSE IF b.fin THEN a = PInf
    ELSE a = PInf /\ b = NInf

flt(a, b) == fgt(b, a)

(* ------------------------------------------------------------------ *)
(* vmath.h: Vec3 and its operations                                     *)
(* ------------------------------------------------------------------ *)
Vec3(a, b, c) == [x |-> a, y |-> b, z |-> c]
ZeroVec == Vec3(Zero, Zero, Zero)

add(a, b) == Vec3(fadd(a.x, b.x), fadd(a.y, b.y), fadd(a.z, b.z))
sub(a, b) == Vec3(fsub(a.x, b.x), fsub(a.y, b.y), fsub(a.z, b.z))
scale(v, s) == Vec3(fmul(v.x, s), fmul(v.y, s), fmul(v.z, s))
dot(a, b) == fadd(fadd(fmul(a.x, b.x), fmul(a.y, b.y)), fmul(a.z, b.z))
length2(v) == dot(v, v)
length(v) == sqrt(length2(v))

VecHasNaN(v) == isnan(v.x) \/ isnan(v.y) \/ isnan(v.z)
VecFinite(v) == IsFin(v.x) /\ IsFin(v.y) /\ IsFin(v.z)
VecIsZero(v) == IsZero(v.x) /\ IsZero(v.y) /\ IsZero(v.z)

(* a x b, used to decide exactly whether two bond vectors are colinear *)
cross(a, b) ==
    Vec3(fsub(fmul(a.y, b.z), fmul(a.z, b.y)),
         fsub(fmul(a.z, b.x), fmul(a.x, b.z)),
         fsub(fmul(a.x, b.y), fmul(a.y, b.x)))

(* ------------------------------------------------------------------ *)
(* constants of system.c, in the units of the model                     *)
(* ------------------------------------------------------------------ *)
MASS_A == 2
MASS_P == 1
MASS_S == 1
D_S5P == 4
D_S3P == 4
D_SA == 6
STACK_SIGMA == 3
BOND_K1 == 1
BOND_K2 == 100
BOND_STACK == 1
BOLTZMANN_CONSTANT == 1
(* 1e-20, the momentum per monomer physicsCheck tolerates *)
PPM_MAX == 1
(* 1e-8, the relative step of the numerical derivative *)
hfactor == 1

(* equilibrium length of a bond, by the name the source passes *)
BondLength(par) ==
    CASE par = "D_SA" -> Fin(D_SA)
      [] par = "D_S5P" -> Fin(D_S5P)
      [] par = "D_S3P" -> Fin(D_S3P)

(* ------------------------------------------------------------------ *)
(* configurations and inputs                                            *)
(* ------------------------------------------------------------------ *)
TimeSteps == {4, 8}
ThermostatTaus == {-4, 0, 4}
(* config.thermostatTemp: an ordinary temperature, and a double so large   *)
(* (INFINITY, or within a factor Tk of the largest double) that T0/Tk is   *)
(* +Inf                                                                    *)
ThermostatTemps == {One, PInf}

Configs ==
    [numMonomers : 1..MaxMonomers, timeStep : TimeSteps,
     thermostatTau : ThermostatTaus, thermostatTemp : ThermostatTemps]

(* What the scalar functions of the geometry that need acos(), cos() and   *)
(* vmath's dihedral() evaluate to in one force pass: `angle` stands for    *)
(* ktheta*(theta - theta0)/sintheta over |a|^3|b|, `dih[k]` for the slope  *)
(* (Vorig - V(x+h))/h seen by the k-th particle of a dihedral where h # 0; *)
(* the four slopes of a dihedral cancel, as those of a potential that      *)
(* depends on differences of positions only do up to rounding.             *)
FieldSamples ==
    { [angle |-> 1, dih |-> <<1, -1, 0, 0>>],
      [angle |-> -1, dih |-> <<0, 1, 0, -1>>] }

(* The values randNorm() returns to fillWorld, by draw number: all 1; 1 and *)
(* -1 in turn; 1 but for 0 at draw 2 (rand() = RAND_MAX gives log(1) = 0). *)
JitterPatterns == {"ones", "alternate", "zero2"}

randNorm(pat, k) ==
    CASE pat = "ones" -> One
      [] pat = "alternate" -> (IF k % 2 = 0 THEN One ELSE Fin(-1))
      [] pat = "zero2" -> (IF k = 2 THEN Zero ELSE One)

VARIABLES
    config,     \* Config config: numMonomers, timeStep, thermostatTau, thermostatTemp
    world,      \* World world: all ("NULL", "live", "dangling") and the offsets Ss, As, Ps
    mem,        \* the block world.all points to: particle index -> Particle
    sim_time,   \* double sim_time
    pc,         \* position of the caller inside stepWorld, or "idle" / "abort"
    crash,      \* the assertion that aborted the process, or "none"
    filled,     \* whether the particles were populated since allocWorld
    allocRet,   \* what the last allocWorld returned ("none" before, and after freeWorld)
    checkRet,   \* what the last call of physicsCheck returned
    steps,      \* stepWorld calls that returned
    log,        \* the phases stepWorld has run in the current call, in order
    visits,     \* the interactions the current/last calculateForces has evaluated
    evisits,    \* the interactions the last calcPotentialEnergies has evaluated
    coldThermo  \* the thermostat of the current step ran enabled and found Tk <= 0

vars == <<config, world, mem, sim_time, pc, crash, filled, allocRet, checkRet,
          steps, log, visits, evisits, coldThermo>>

N == config.numMonomers
AllIdx == 0..(3 * N - 1)

Particle(p, v, f, m) == [pos |-> p, vel |-> v, F |-> f, m |-> m]
(* calloc: every byte zero *)
ZeroParticle == Particle(ZeroVec, ZeroVec, ZeroVec, Zero)

Ss(i) == world.Ss + i
As(i) == world.As + i
Ps(i) == world.Ps + i

Init ==
    /\ config \in Configs
    /\ world = [all |-> "NULL", Ss |-> -1, As |-> -1, Ps |-> -1]
    /\ mem = <<>>
    /\ sim_time = Zero
    /\ pc = "idle"
    /\ crash = "none"
    /\ filled = FALSE
    /\ allocRet = "none"
    /\ checkRet = "none"
    /\ steps = 0
    /\ log = <<>>
    /\ visits = <<>>
    /\ evisits = <<>>
    /\ coldThermo = FALSE

(* a bool returned to the caller *)
Returns(b) == IF b THEN "true" ELSE "false"

Abort(why) == pc' = "abort" /\ crash' = why

(* ------------------------------------------------------------------ *)
(* allocWorld, fillWorld, freeWorld                                     *)
(* ------------------------------------------------------------------ *)
(* SplitWorld with the third sublist starting where the second does *)
SplitWorldOverlapping(n) == [all |-> "live", Ss |-> 0, As |-> 1 * n, Ps |-> 1 * n]

(* the three sublists of a successful allocWorld *)
SplitWorld(n) == [all |-> "live", Ss |-> 0, As |-> 1 * n, Ps |-> 2 * n]

(* The caller calls allocWorld first, after a failed allocWorld, or after  *)
(* freeWorld.  free() leaves world.all pointing to the released block.     *)
allocWorld ==
    /\ pc = "idle"
    /\ world.all # "live"
    /\ \/ /\ world.all # "NULL"
          /\ Abort("allocWorld:89")
          /\ UNCHANGED <<world, mem, allocRet>>
       \/ /\ world.all = "NULL"
          /\ world' = SplitWorld(N)
          /\ mem' = [i \in AllIdx |-> ZeroParticle]
          /\ allocRet' = "true"
          /\ UNCHANGED <<pc, crash>>
       \/ /\ world.all = "NULL"
          /\ allocRet' = "false"
          /\ UNCHANGED <<world, mem, pc, crash>>
    /\ filled' = FALSE
    /\ UNCHANGED <<config, sim_time, checkRet, steps, log, visits, evisits, coldThermo>>

(* one monomer of fillWorld's loop; draws 9*i .. 9*i+8 of randNorm *)
FillMonomer(m, i, pat) ==
    LET n == Fin(N)
        spacing == fadd(Fin(D_S5P), Fin(D_S3P))
        yoffset == fdiv(fmul(fneg(n), spacing), Two)
        xoffset == fdiv(fneg(Fin(D_SA)), Two)
        posStdev == fdiv(spacing, Fin(100))
        row == fadd(yoffset, fmul(Fin(i), spacing))
        jit(k) == fmul(posStdev, randNorm(pat, 9 * i + k))
        sPos == Vec3(fadd(xoffset, jit(0)), fadd(row, jit(1)), fadd(Zero, jit(2)))
        aPos == Vec3(fadd(fadd(xoffset, Fin(D_SA)), jit(3)), fadd(row, jit(4)), fadd(Zero, jit(5)))
        pPos == Vec3(fadd(xoffset, jit(6)), fadd(fadd(row, Fin(D_S5P)), jit(7)), fadd(Zero, jit(8)))
    IN [m EXCEPT ![Ss(i)] = [@ EXCEPT !.pos = sPos, !.vel = ZeroVec, !.m = Fin(MASS_S)],
                 ![As(i)] = [@ EXCEPT !.pos = aPos, !.vel = ZeroVec, !.m = Fin(MASS_A)],
                 ![Ps(i)] = [@ EXCEPT !.pos = pPos, !.vel = ZeroVec, !.m = Fin(MASS_P)]]

RECURSIVE FillLoop(_, _, _)
FillLoop(m, i, pat) ==
    IF i >= N THEN m
    ELSE Only({ FillLoop(next, i + 1, pat) : next \in {FillMonomer(m, i, pat)} })

fillWorld ==
    /\ pc = "idle"
    /\ world.all = "live"
    /\ ~filled
    /\ \E pat \in JitterPatterns : mem' = FillLoop(mem, 0, pat)
    /\ filled' = TRUE
    /\ UNCHANGED <<config, world, sim_time, pc, crash, allocRet, checkRet, steps, log,
                   visits, evisits, coldThermo>>

(* A caller outside system.c stores a configuration into the exported      *)
(* global `world`: one monomer at rest, phosphate - sugar - base on a line *)
(* at the equilibrium lengths, every velocity zero.                        *)
RestMonomer(m) ==
    [m EXCEPT ![Ss(0)] = [@ EXCEPT !.pos = Vec3(Fin(1), Fin(1), Fin(1)), !.vel = ZeroVec, !.m = Fin(MASS_S)],
              ![As(0)] = [@ EXCEPT !.pos = Vec3(Fin(1 + D_SA), Fin(1), Fin(1)), !.vel = ZeroVec, !.m = Fin(MASS_A)],
              ![Ps(0)] = [@ EXCEPT !.pos = Vec3(Fin(1 - D_S5P), Fin(1), Fin(1)), !.vel = ZeroVec, !.m = Fin(MASS_P)]]

placeAtRest ==
    /\ pc = "idle"
    /\ world.all = "live"
    /\ ~filled
    /\ N = 1
    /\ mem' = RestMonomer(mem)
    /\ filled' = TRUE
    /\ UNCHANGED <<config, world, sim_time, pc, crash, allocRet, checkRet, steps, log,
                   visits, evisits, coldThermo>>

freeWorld ==
    /\ pc = "idle"
    /\ world.all = "live"
    /\ world' = [world EXCEPT !.all = "dangling"]
    /\ mem' = <<>>
    /\ filled' = FALSE
    /\ allocRet' = "none"
    /\ UNCHANGED <<config, sim_time, pc, crash, checkRet, steps, log, visits, evisits,
                   coldThermo>>

(* ------------------------------------------------------------------ *)
(* the force field                                                      *)
(* ------------------------------------------------------------------ *)
Inter(kind, ps, par) == [kind |-> kind, ps |-> ps, par |-> par]

(* calculateForces, "Bottom monomer" *)
ForceBottom ==
    << Inter("bond", <<Ss(0), As(0)>>, "D_SA"),
       Inter("bond", <<Ss(0), Ps(0)>>, "D_S5P"),
       Inter("angle", <<Ps(0), Ss(0), As(0)>>, "ANGLE_P_5S_A") >>

(* ForceMonomer without the guard i >= 2 of the last dihedral *)
ForceMonomerUnguarded(i) ==
    << Inter("bond", <<Ss(i), As(i)>>, "D_SA"),
       Inter("bond", <<Ss(i), Ps(i)>>, "D_S5P"),
       Inter("bond", <<Ss(i), Ps(i - 1)>>, "D_S3P"),
       Inter("stack", <<As(i), As(i - 1)>>, "STACK_SIGMA"),
       Inter("angle", <<Ps(i), Ss(i), As(i)>>, "ANGLE_P_5S_A"),
       Inter("angle", <<Ps(i), Ss(i), Ps(i - 1)>>, "ANGLE_P_5S3_P"),
       Inter("angle", <<Ps(i - 1), Ss(i), As(i)>>, "ANGLE_P_3S_A"),
       Inter("angle", <<Ss(i - 1), Ps(i - 1), Ss(i)>>, "ANGLE_S5_P_3S"),
       Inter("dihedral", <<Ps(i), Ss(i), Ps(i - 1), Ss(i - 1)>>, "DIHEDRAL_P_5S3_P_5S"),
       Inter("dihedral", <<As(i), Ss(i), Ps(i - 1), Ss(i - 1)>>, "DIHEDRAL_A_S3_P_5S"),
       Inter("dihedral", <<Ss(i), Ps(i - 1), Ss(i - 1), As(i - 1)>>, "DIHEDRAL_S3_P_5S_A"),
       Inter("dihedral", <<Ss(i), Ps(i - 1), Ss(i - 1), Ps(i - 2)>>, "DIHEDRAL_S3_P_5S3_P") >>

(* calculateForces, one turn of the loop "Rest of the monomers" *)
ForceMonomer(i) ==
    << Inter("bond", <<Ss(i), As(i)>>, "D_SA"),
       Inter("bond", <<Ss(i), Ps(i)>>, "D_S5P"),
       Inter("bond", <<Ss(i), Ps(i - 1)>>, "D_S3P"),
       Inter("stack", <<As(i), As(i - 1)>>, "STACK_SIGMA"),
       Inter("angle", <<Ps(i), Ss(i), As(i)>>, "ANGLE_P_5S_A"),
       Inter("angle", <<Ps(i), Ss(i), Ps(i - 1)>>, "ANGLE_P_5S3_P"),
       Inter("angle", <<Ps(i - 1), Ss(i), As(i)>>, "ANGLE_P_3S_A"),
       Inter("angle", <<Ss(i - 1), Ps(i - 1), Ss(i)>>, "ANGLE_S5_P_3S"),
       Inter("dihedral", <<Ps(i), Ss(i), Ps(i - 1), Ss(i - 1)>>, "DIHEDRAL_P_5S3_P_5S"),
       Inter("dihedral", <<As(i), Ss(i), Ps(i - 1), Ss(i - 1)>>, "DIHEDRAL_A_S3_P_5S"),
       Inter("dihedral", <<Ss(i), Ps(i - 1), Ss(i - 1), As(i - 1)>>, "DIHEDRAL_S3_P_5S_A") >>
    \o (IF i >= 2
        THEN << Inter("dihedral", <<Ss(i), Ps(i - 1), Ss(i - 1), Ps(i - 2)>>, "DIHEDRAL_S3_P_5S3_P") >>
        ELSE << >>)

RECURSIVE ForceLoop(_)
ForceLoop(i) == IF i >= N THEN << >> ELSE ForceMonomer(i) \o ForceLoop(i + 1)

(* the calls calculateForces makes after the reset, in order *)
ForcePass == ForceBottom \o ForceLoop(1)

(* a force pass in progress: the particles, and the assertion that failed *)
Pass(m, c) == [mem |-> m, crash |-> c]

(* add(&p1->F, &F, &p1->F); sub(&p2->F, &F, &p2->F) *)
OnPair(m, p1, p2, F) ==
    [m EXCEPT ![p1].F = add(m[p1].F, F), ![p2].F = sub(m[p2].F, F)]

(* 2*k1*d + 4*k2*d3 *)
BondStrength(d) ==
    fadd(fmul(fmul(Two, Fin(BOND_K1)), d),
         fmul(fmul(Fin(4), Fin(BOND_K2)), fmul(fmul(d, d), d)))

(* F of Fbond from drVec and its length dr *)
BondForce(drVec, dr, d0) == scale(scale(drVec, fdiv(One, dr)), BondStrength(fsub(dr, d0)))

BondAlong(drVec, d0) == BondForce(drVec, length(drVec), d0)

Fbond(st, p1, p2, d0) ==
    Pass(OnPair(st.mem, p1, p2, BondAlong(sub(st.mem[p2].pos, st.mem[p1].pos), d0)),
         st.crash)

Sq(x) == fmul(x, x)
Cube(x) == fmul(fmul(x, x), x)

(* sigma12/dr14 - sigma6/dr8 from sigma6, dr2 and dr6 *)
StackTerm(sigma6, dr2, dr6) ==
    fsub(fdiv(Sq(sigma6), fmul(Sq(dr6), dr2)), fdiv(sigma6, fmul(dr6, dr2)))

(* -12 * kStack * (sigma12/dr14 - sigma6/dr8) *)
StackStrength(dr) ==
    fmul(fmul(Fin(-12), Fin(BOND_STACK)),
         StackTerm(Cube(Sq(Fin(STACK_SIGMA))), Sq(dr), Sq(Cube(dr))))

StackAlong(st, p1, p2, drVec, dr) ==
    IF IsZero(dr)
    THEN Pass(st.mem, "Fstack:496")
    ELSE Pass(OnPair(st.mem, p1, p2, scale(drVec, StackStrength(dr))), st.crash)

StackOn(st, p1, p2, drVec) == StackAlong(st, p1, p2, drVec, length(drVec))

Fstack(st, p1, p2) == StackOn(st, p1, p2, sub(st.mem[p2].pos, st.mem[p1].pos))

(* sqrt(1 - costheta*costheta): NaN with costheta, and otherwise zero      *)
(* exactly when the two bond vectors are colinear                          *)
SinTheta(a, b, costheta) ==
    IF isnan(costheta) THEN NaN
    ELSE IF VecIsZero(cross(a, b)) THEN Zero ELSE One

(* x < 1e-30 and x < 1e-5 on a whole number x >= 0 *)
BelowOne(x) == flt(x, One)

(* F1 of Fangle (and F3, with a and b exchanged):                          *)
(* b/(|a||b|) - a (a.b)/(|a|^3 |b|), times |a|^3 |b|; coef is the rest     *)
AngleForce(a, b, adotb, coef) ==
    scale(sub(scale(b, dot(a, a)), scale(a, adotb)), Fin(coef))

(* fabs(dot(&a, &F1) / length(&a) / length(&F1)) < 1e-5 *)
Orthogonal(a, F) == BelowOne(fabs(fdiv(fdiv(dot(a, F), length(a)), length(F))))

(* the three accumulations of Fangle *)
OnTriple(m, p1, p2, p3, F1, F3) ==
    [m EXCEPT ![p1].F = add(m[p1].F, F1),
              ![p3].F = add(m[p3].F, F3),
              ![p2].F = sub(m[p2].F, add(F1, F3))]

AngleAsserts(a, b, F1, F3, crashBefore) ==
    IF ~Orthogonal(a, F1) THEN "Fangle:389"
    ELSE IF ~Orthogonal(b, F3) THEN "Fangle:391"
    ELSE crashBefore

AngleApply(st, p1, p2, p3, a, b, F1, F3) ==
    Pass(OnTriple(st.mem, p1, p2, p3, F1, F3), AngleAsserts(a, b, F1, F3, st.crash))

AngleWith(st, p1, p2, p3, a, b, adotb, fs) ==
    IF BelowOne(fabs(SinTheta(a, b, fdiv(adotb, fmul(length(a), length(b))))))
    THEN st
    ELSE AngleApply(st, p1, p2, p3, a, b,
                    AngleForce(a, b, adotb, fs.angle), AngleForce(b, a, adotb, fs.angle))

AngleBetween(st, p1, p2, p3, a, b, fs) == AngleWith(st, p1, p2, p3, a, b, dot(a, b), fs)

Fangle(st, p1, p2, p3, fs) ==
    AngleBetween(st, p1, p2, p3,
                 sub(st.mem[p1].pos, st.mem[p2].pos), sub(st.mem[p3].pos, st.mem[p2].pos), fs)

(* Vorig - Vdihedral(...) after a coordinate moved by h: the same value    *)
(* twice when h = 0, NaN when a coordinate of the four is not finite, and  *)
(* slope * h otherwise                                                     *)
DeltaV(m, ps, h, slope) ==
    IF \E k \in 1..4 : ~VecFinite(m[ps[k]].pos) THEN NaN
    ELSE IF ~IsFin(h) THEN NaN
    ELSE IF IsZero(h) THEN Zero
    ELSE fmul(Fin(slope), h)

(* one axis of FdihedralParticle with its h: the coordinate is moved by h  *)
(* and back, F.axis is the quotient                                        *)
AxisMoved(m, target, ps, axis, slope, h) ==
    [m EXCEPT ![target].pos[axis] = fsub(fadd(@, h), h),
              ![target].F[axis] = fadd(@, fdiv(DeltaV(m, ps, h, slope), h))]

DihedralAxis(m, target, ps, axis, slope) ==
    AxisMoved(m, target, ps, axis, slope, fmul(m[target].pos[axis], Fin(hfactor)))

FdihedralParticle(m, k, ps, fs) ==
    DihedralAxis(
        DihedralAxis(
            DihedralAxis(m, ps[k], ps, "x", fs.dih[k]), ps[k], ps, "y", fs.dih[k]),
        ps[k], ps, "z", fs.dih[k])

Fdihedral(st, ps, fs) ==
    Pass(FdihedralParticle(
             FdihedralParticle(
                 FdihedralParticle(
                     FdihedralParticle(st.mem, 1, ps, fs), 2, ps, fs), 3, ps, fs), 4, ps, fs),
         st.crash)

(* one call of the pass *)
ApplyForce(st, it, fs) ==
    CASE it.kind = "bond" -> Fbond(st, it.ps[1], it.ps[2], BondLength(it.par))
      [] it.kind = "stack" -> Fstack(st, it.ps[1], it.ps[2])
      [] it.kind = "angle" -> Fangle(st, it.ps[1], it.ps[2], it.ps[3], fs)
      [] it.kind = "dihedral" -> Fdihedral(st, it.ps, fs)

RECURSIVE ApplyPass(_, _, _, _)
(* the calls list[k..] in order, stopping at a failed assertion;           *)
(* <<the pass afterwards, the number of calls made>>                       *)
ApplyPass(st, list, k, fs) ==
    IF k > Len(list) \/ st.crash # "none" THEN << st, k - 1 >>
    ELSE Only({ ApplyPass(next, list, k + 1, fs) : next \in {ApplyForce(st, list[k], fs)} })

(* calculateForces, "Reset forces" *)
ResetForces(m) == [i \in DOMAIN m |-> [m[i] EXCEPT !.F = ZeroVec]]

(* ------------------------------------------------------------------ *)
(* kinetic energy, temperature, momentum                                *)
(* ------------------------------------------------------------------ *)
RECURSIVE TwiceK(_, _)
TwiceK(m, i) ==
    IF i >= 3 * N THEN Zero
    ELSE LET rest == TwiceK(m, i + 1)
         IN fadd(fmul(m[i].m, length2(m[i].vel)), rest)

kineticEnergy(m) == fdiv(TwiceK(m, 0), Two)

temperature(m) ==
    fdiv(fmul(fdiv(Two, fmul(Fin(3), Fin(BOLTZMANN_CONSTANT))), kineticEnergy(m)),
         fmul(Fin(N), Fin(3)))

RECURSIVE MomentumFrom(_, _, _)
MomentumFrom(m, i, Ptot) ==
    IF i >= 3 * N THEN Ptot
    ELSE Only({ MomentumFrom(m, i + 1, next) : next \in {add(scale(m[i].vel, m[i].m), Ptot)} })

momentum(m) == MomentumFrom(m, 0, ZeroVec)

(* |P| / numMonomers *)
PPM(m) == fdiv(length(momentum(m)), Fin(N))

physicsCheck(m) == ~fgt(PPM(m), Fin(PPM_MAX))

(* ------------------------------------------------------------------ *)
(* verlet and thermostat                                                *)
(* ------------------------------------------------------------------ *)
(* vel(t + dt/2) = vel(t) + acc(t)*dt/2 of one particle *)
HalfKick(p, dt) == add(p.vel, scale(p.F, fdiv(dt, fmul(Two, p.m))))

RECURSIVE VerletLoop1(_, _, _)
(* the first loop of verlet from particle i on: the particles afterwards,  *)
(* the assertion that failed, the entries for the log                      *)
VerletLoop1(m, i, dt) ==
    IF i >= 3 * N THEN [mem |-> m, crash |-> "none", log |-> << >>]
    ELSE LET v == HalfKick(m[i], dt)
             kicked == [m EXCEPT ![i].vel = v]
         IN IF VecHasNaN(v)
            THEN [mem |-> kicked, crash |-> "verlet:217", log |-> << "halfKick" >>]
            ELSE Only({ [r EXCEPT !.log = << "halfKick", "drift" >> \o @] :
                        r \in { VerletLoop1(next, i + 1, dt) :
                                 next \in {[kicked EXCEPT ![i].pos = add(m[i].pos, scale(v, dt))]} } })

(* the second loop of verlet *)
VerletLoop2(m, dt) == [i \in DOMAIN m |-> [m[i] EXCEPT !.vel = HalfKick(m[i], dt)]]

Lambda(m) ==
    LET Tk == temperature(m)
        T0 == config.thermostatTemp
        dt == Fin(config.timeStep)
        tau == Fin(config.thermostatTau)
    IN sqrt(fadd(One, fmul(fdiv(dt, tau), fsub(fdiv(T0, Tk), One))))

(* thermostat returning early only when thermostatTau < 0 *)
thermostatUnlessNegative(m) ==
    IF config.thermostatTau < 0 THEN m
    ELSE [i \in DOMAIN m |-> [m[i] EXCEPT !.vel = scale(m[i].vel, Lambda(m))]]

thermostat(m) ==
    IF config.thermostatTau <= 0 THEN m
    ELSE [i \in DOMAIN m |-> [m[i] EXCEPT !.vel = scale(m[i].vel, Lambda(m))]]

(* the order of the parts of verlet, and of the calls of stepWorld *)
VerletThen(p) ==
    CASE p = "kick1" -> "reset"
      [] p = "reset" -> "interactions"
      [] p = "interactions" -> "kick2"
      [] p = "kick2" -> "return"

(* stepWorld without its first assert(physicsCheck()) *)
StepThenOneCheck(p) ==
    CASE p = "verlet" -> "thermostat"
      [] p = "check1" -> "thermostat"
      [] p = "thermostat" -> "check2"
      [] p = "check2" -> "clock"
      [] p = "clock" -> "idle"

StepThen(p) ==
    CASE p = "verlet" -> "check1"
      [] p = "check1" -> "thermostat"
      [] p = "thermostat" -> "check2"
      [] p = "check2" -> "clock"
      [] p = "clock" -> "idle"

AfterVerlet(p) == IF VerletThen(p) = "return" THEN StepThen("verlet") ELSE VerletThen(p)

Repeat(e, k) == [j \in 1..k |-> e]

(* ------------------------------------------------------------------ *)
(* stepWorld, in the steps it is made of                                *)
(* ------------------------------------------------------------------ *)
Stepping == world.all = "live" /\ filled

(* stepWorld is entered; verlet's first loop *)
verlet_kick1 ==
    /\ pc = "idle"
    /\ Stepping
    /\ steps < MaxSteps
    /\ \E r \in {VerletLoop1(mem, 0, Fin(config.timeStep))} :
          /\ mem' = r.mem
          /\ log' = r.log
          /\ IF r.crash = "none"
             THEN pc' = AfterVerlet("kick1") /\ crash' = crash
             ELSE Abort(r.crash)
    /\ coldThermo' = FALSE
    /\ visits' = << >>
    /\ UNCHANGED <<config, world, sim_time, filled, allocRet, checkRet, steps, evisits>>

(* calculateForces: "Reset forces" *)
forces_reset ==
    /\ pc = "reset"
    /\ mem' = ResetForces(mem)
    /\ pc' = AfterVerlet("reset")
    /\ UNCHANGED <<config, world, sim_time, crash, filled, allocRet, checkRet, steps, log,
                   visits, evisits, coldThermo>>

(* calculateForces: the calls of Fbond, Fstack, Fangle, Fdihedral *)
forces_interactions ==
    /\ pc = "interactions"
    /\ \E fs \in FieldSamples :
          \E r \in {ApplyPass(Pass(mem, "none"), ForcePass, 1, fs)} :
             /\ mem' = r[1].mem
             /\ visits' = SubSeq(ForcePass, 1, r[2])
             /\ IF r[1].crash = "none"
                THEN pc' = AfterVerlet("interactions") /\ crash' = crash
                ELSE Abort(r[1].crash)
    /\ log' = Append(log, "forces")
    /\ UNCHANGED <<config, world, sim_time, filled, allocRet, checkRet, steps, evisits,
                   coldThermo>>

(* verlet's second loop *)
verlet_kick2 ==
    /\ pc = "kick2"
    /\ mem' = VerletLoop2(mem, Fin(config.timeStep))
    /\ log' = log \o Repeat("halfKick2", 3 * N)
    /\ pc' = AfterVerlet("kick2")
    /\ UNCHANGED <<config, world, sim_time, crash, filled, allocRet, checkRet, steps,
                   visits, evisits, coldThermo>>

(* assert(physicsCheck()) after verlet and after thermostat *)
step_check(at, line) ==
    /\ pc = at
    /\ checkRet' = Returns(physicsCheck(mem))
    /\ log' = Append(log, "physicsCheck")
    /\ IF physicsCheck(mem)
       THEN pc' = StepThen(at) /\ crash' = crash
       ELSE Abort(line)
    /\ UNCHANGED <<config, world, mem, sim_time, filled, allocRet, steps, visits, evisits,
                   coldThermo>>

step_check1 == step_check("check1", "stepWorld:527")

step_check2 == step_check("check2", "stepWorld:529")

(* Tk <= 0 as C compares it *)
NotPositive(a) == ~isnan(a) /\ ~fgt(a, Zero)

step_thermostat ==
    /\ pc = "thermostat"
    /\ mem' = thermostat(mem)
    /\ log' = IF config.thermostatTau > 0 THEN Append(log, "thermostat") ELSE log
    /\ coldThermo' = (config.thermostatTau > 0 /\ NotPositive(temperature(mem)))
    /\ pc' = StepThen("thermostat")
    /\ UNCHANGED <<config, world, sim_time, crash, filled, allocRet, checkRet, steps,
                   visits, evisits>>

(* sim_time advanced twice per step *)
ClockAfterTwice(t) == fadd(fadd(t, Fin(config.timeStep)), Fin(config.timeStep))

(* sim_time += config.timeStep *)
ClockAfter(t) == fadd(t, Fin(config.timeStep))

(* the last statement of stepWorld; stepWorld returns *)
step_clock ==
    /\ pc = "clock"
    /\ sim_time' = ClockAfter(sim_time)
    /\ steps' = steps + 1
    /\ pc' = StepThen("clock")
    /\ UNCHANGED <<config, world, mem, crash, filled, allocRet, checkRet, log, visits,
                   evisits, coldThermo>>

(* ------------------------------------------------------------------ *)
(* the calls that only read the world                                   *)
(* ------------------------------------------------------------------ *)
callPhysicsCheck ==
    /\ pc = "idle"
    /\ Stepping
    /\ checkRet' = Returns(physicsCheck(mem))
    /\ UNCHANGED <<config, world, mem, sim_time, pc, crash, filled, allocRet, steps, log,
                   visits, evisits, coldThermo>>

(* calcPotentialEnergies, before the loop *)
EnergyBottom ==
    << Inter("bond", <<Ss(0), As(0)>>, "D_SA"),
       Inter("bond", <<Ss(0), Ps(0)>>, "D_S5P"),
       Inter("angle", <<As(0), Ss(0), Ps(0)>>, "ANGLE_P_5S_A") >>

(* EnergyMonomer without the stacking term *)
EnergyMonomerNoStack(i) ==
    << Inter("bond", <<Ss(i), As(i)>>, "D_SA"),
       Inter("bond", <<Ss(i), Ps(i)>>, "D_S5P"),
       Inter("bond", <<Ss(i), Ps(i - 1)>>, "D_S3P"),
       Inter("angle", <<Ps(i), Ss(i), As(i)>>, "ANGLE_P_5S_A"),
       Inter("angle", <<Ps(i), Ss(i), Ps(i - 1)>>, "ANGLE_P_5S3_P"),
       Inter("angle", <<Ps(i - 1), Ss(i), As(i)>>, "ANGLE_P_3S_A"),
       Inter("angle", <<Ss(i - 1), Ps(i - 1), Ss(i)>>, "ANGLE_S5_P_3S"),
       Inter("dihedral", <<Ps(i), Ss(i), Ps(i - 1), Ss(i - 1)>>, "DIHEDRAL_P_5S3_P_5S"),
       Inter("dihedral", <<As(i), Ss(i), Ps(i - 1), Ss(i - 1)>>, "DIHEDRAL_A_S3_P_5S"),
       Inter("dihedral", <<Ss(i), Ps(i - 1), Ss(i - 1), As(i - 1)>>, "DIHEDRAL_S3_P_5S_A") >>
    \o (IF i >= 2
        THEN << Inter("dihedral", <<Ss(i), Ps(i - 1), Ss(i - 1), Ps(i - 2)>>, "DIHEDRAL_S3_P_5S3_P") >>
        ELSE << >>)

(* calcPotentialEnergies, one turn of the loop *)
EnergyMonomer(i) ==
    << Inter("bond", <<Ss(i), As(i)>>, "D_SA"),
       Inter("bond", <<Ss(i), Ps(i)>>, "D_S5P"),
       Inter("bond", <<Ss(i), Ps(i - 1)>>, "D_S3P"),
       Inter("stack", <<As(i), As(i - 1)>>, "STACK_SIGMA"),
       Inter("angle", <<Ps(i), Ss(i), As(i)>>, "ANGLE_P_5S_A"),
       Inter("angle", <<Ps(i), Ss(i), Ps(i - 1)>>, "ANGLE_P_5S3_P"),
       Inter("angle", <<Ps(i - 1), Ss(i), As(i)>>, "ANGLE_P_3S_A"),
       Inter("angle", <<Ss(i - 1), Ps(i - 1), Ss(i)>>, "ANGLE_S5_P_3S"),
       Inter("dihedral", <<Ps(i), Ss(i), Ps(i - 1), Ss(i - 1)>>, "DIHEDRAL_P_5S3_P_5S"),
       Inter("dihedral", <<As(i), Ss(i), Ps(i - 1), Ss(i - 1)>>, "DIHEDRAL_A_S3_P_5S"),
       Inter("dihedral", <<Ss(i), Ps(i - 1), Ss(i - 1), As(i - 1)>>, "DIHEDRAL_S3_P_5S_A") >>
    \o (IF i >= 2
        THEN << Inter("dihedral", <<Ss(i), Ps(i - 1), Ss(i - 1), Ps(i - 2)>>, "DIHEDRAL_S3_P_5S3_P") >>
        ELSE << >>)

RECURSIVE EnergyLoop(_)
EnergyLoop(i) == IF i >= N THEN << >> ELSE EnergyMonomer(i) \o EnergyLoop(i + 1)

(* the terms calcPotentialEnergies sums, in order *)
calcPotentialEnergies == EnergyBottom \o EnergyLoop(1)

dumpStats ==
    /\ pc = "idle"
    /\ Stepping
    /\ evisits' = calcPotentialEnergies
    /\ UNCHANGED <<config, world, mem, sim_time, pc, crash, filled, allocRet, checkRet,
                   steps, log, visits, coldThermo>>

dumpEnergies ==
    /\ pc = "idle"
    /\ Stepping
    /\ evisits' = calcPotentialEnergies
    /\ UNCHANGED <<config, world, mem, sim_time, pc, crash, filled, allocRet, checkRet,
                   steps, log, visits, coldThermo>>

(* ------------------------------------------------------------------ *)
(* properties                                                           *)
(* ------------------------------------------------------------------ *)
Range(s) == {s[k] : k \in DOMAIN s}

IsPrefix(s, t) == Len(s) <= Len(t) /\ s = SubSeq(t, 1, Len(s))

(* a <= b as a statement about numbers: it does not hold of NaN *)
AtMost(a, b) == ~isnan(a) /\ ~isnan(b) /\ ~fgt(a, b)

NoNaNVelocity == \A i \in DOMAIN mem : ~VecHasNaN(mem[i].vel)

(* a stepWorld call has returned and the world it stepped is still there *)
Returned == pc = "idle" /\ steps > 0 /\ Stepping

RECURSIVE ForceFrom(_, _, _)
(* the sum of the force accumulators of particles i, i+1, ... added to Ftot *)
ForceFrom(m, i, Ftot) ==
    IF i >= 3 * N THEN Ftot
    ELSE Only({ ForceFrom(m, i + 1, next) : next \in {add(m[i].F, Ftot)} })

(* C1: from a world filled with zero total momentum, the forces a          *)
(* completed force pass has accumulated sum to zero, every term having     *)
(* added contributions that cancel, and after every stepWorld call that    *)
(* has returned the momentum per monomer |sum of m*v| / numMonomers is at  *)
(* most the 1e-20 of physicsCheck.                                         *)
C1_MomentumStaysBounded ==
    /\ pc = "kick2" => ForceFrom(mem, 0, ZeroVec) = ZeroVec
    /\ Returned => AtMost(PPM(mem), Fin(PPM_MAX))

(* the first loop of verlet: half kick and drift, particle by particle *)
KickDrift == [j \in 1..(6 * N) |-> IF j % 2 = 1 THEN "halfKick" ELSE "drift"]

ThermostatPhase == IF config.thermostatTau > 0 THEN << "thermostat" >> ELSE << >>

(* the phases of one step as the code runs them *)
StepLog ==
    KickDrift \o << "forces" >> \o Repeat("halfKick2", 3 * N)
        \o << "physicsCheck" >> \o ThermostatPhase \o << "physicsCheck" >>

(* the phases of one step with the only momentum check after the thermostat *)
StepLogCheckedOnce ==
    KickDrift \o << "forces" >> \o Repeat("halfKick2", 3 * N)
        \o ThermostatPhase \o << "physicsCheck" >>

(* C2 as stated: a stepWorld call about to return has run the first half   *)
(* velocity updates and position updates, one force evaluation, the second *)
(* half velocity updates, the thermostat if enabled, and then the momentum *)
(* check, which comes after the thermostat and not before it.              *)
C2_CheckOnlyAfterThermostat == pc = "clock" => log = StepLogCheckedOnce

(* C2 amended: the phases a stepWorld call has run are always a prefix of, *)
(* and at its end are exactly: per particle the first half velocity update *)
(* then its position update, one force evaluation, the second half         *)
(* velocity update of every particle, a momentum check, the thermostat if  *)
(* enabled, and a second momentum check.                                   *)
C2_StepOrder == IsPrefix(log, StepLog) /\ (pc = "clock" => log = StepLog)

C2_Witness == pc = "clock" /\ config.thermostatTau > 0 /\ N >= 2

(* C3: sim_time equals (completed steps) * timeStep in every state; a step *)
(* that changes it is the return of stepWorld and adds exactly timeStep;   *)
(* allocWorld, fillWorld, freeWorld, physicsCheck, dumpStats and           *)
(* dumpEnergies leave it alone; and it never decreases.                    *)
C3_ClockAdvancesByTimeStep ==
    /\ [](sim_time = Fin(steps * config.timeStep))
    /\ [][sim_time' # sim_time =>
             /\ pc = "clock" /\ pc' = "idle"
             /\ sim_time' = fadd(sim_time, Fin(config.timeStep))]_vars
    /\ [][(allocWorld \/ fillWorld \/ freeWorld \/ callPhysicsCheck \/ dumpStats
             \/ dumpEnergies) => sim_time' = sim_time]_vars
    /\ [][~flt(sim_time', sim_time)]_vars

C3_Witness == steps >= 2 /\ pc = "idle" /\ sim_time = Fin(2 * config.timeStep)

(* C4: no allocWorld that follows a freeWorld fails the assertion on its   *)
(* precondition world.all == NULL.                                         *)
C4_ReallocationSucceeds == crash # "allocWorld:89"

SsIdx == {Ss(i) : i \in 0..(N - 1)}
AsIdx == {As(i) : i \in 0..(N - 1)}
PsIdx == {Ps(i) : i \in 0..(N - 1)}

(* C5: after allocWorld returned true there are exactly 3*numMonomers      *)
(* particles, and Ss, As, Ps are three disjoint runs of numMonomers of     *)
(* them each; after it returned false nothing is allocated and world.all   *)
(* is NULL, so that allocWorld may be called again.                        *)
C5_AllocOutcome ==
    /\ allocRet = "true" =>
          /\ world.all = "live"
          /\ DOMAIN mem = 0..(3 * N - 1)
          /\ Cardinality(SsIdx) = N /\ Cardinality(AsIdx) = N /\ Cardinality(PsIdx) = N
          /\ SsIdx \cap AsIdx = {} /\ SsIdx \cap PsIdx = {} /\ AsIdx \cap PsIdx = {}
          /\ SsIdx \cup AsIdx \cup PsIdx = DOMAIN mem
    /\ allocRet = "false" => world.all = "NULL" /\ mem = << >>

C5_Witness == allocRet = "true" /\ N = MaxMonomers /\ ~filled

(* C6: a step whose enabled thermostat found the temperature <= 0 has no   *)
(* NaN velocity and does not go on to return.                              *)
C6_ColdThermostatSurfaces == coldThermo => NoNaNVelocity /\ pc \notin {"clock", "idle"}

(* the particles verlet's first loop has moved in the current step *)
Drifted == Cardinality({k \in DOMAIN log : log[k] = "drift"})

(* C7: when verlet's first loop has ended, by completing or by its        *)
(* assertion, every particle whose position it updated had a finite        *)
(* velocity after its half kick.                                           *)
C7_NonFiniteVelocityStopsStep ==
    (pc = "reset" \/ crash = "verlet:217") =>
        \A i \in 0..(Drifted - 1) : VecFinite(mem[i].vel)

(* C8: with thermostatTau <= 0 the thermostat phase of a step changes no   *)
(* particle: velocity, position, force accumulator and mass stay.          *)
C8_DisabledThermostatIsNoOp ==
    [][(pc = "thermostat" /\ config.thermostatTau <= 0) => mem' = mem]_vars

C8_Witness ==
    pc = "check2" /\ config.thermostatTau <= 0 /\ IsZero(temperature(mem)) /\ steps >= 1

Count(kind) == Cardinality({k \in DOMAIN visits : visits[k].kind = kind})

Visited(kind, ps) == \E k \in DOMAIN visits : visits[k].kind = kind /\ visits[k].ps = ps

(* C9: when the calls of a force pass begin every force accumulator is     *)
(* zero; a completed pass has visited no interaction twice, per monomer    *)
(* the bonds sugar-base and sugar-phosphate, per monomer i >= 1 the bond   *)
(* to the previous phosphate, one stack, four angles and three dihedrals,  *)
(* a fourth dihedral per monomer i >= 2, one angle for monomer 0, and only *)
(* particles of the world.                                                 *)
C9_ForcePassVisitsTopologyOnce ==
    /\ pc = "interactions" => \A i \in DOMAIN mem : mem[i].F = ZeroVec
    /\ pc = "kick2" =>
          /\ Cardinality({<< it.kind, it.ps >> : it \in Range(visits)}) = Len(visits)
          /\ \A i \in 0..(N - 1) :
                Visited("bond", << Ss(i), As(i) >>) /\ Visited("bond", << Ss(i), Ps(i) >>)
          /\ \A i \in 1..(N - 1) :
                Visited("bond", << Ss(i), Ps(i - 1) >>) /\ Visited("stack", << As(i), As(i - 1) >>)
          /\ Count("bond") = 2 * N + (N - 1)
          /\ Count("stack") = N - 1
          /\ Count("angle") = 1 + 4 * (N - 1)
          /\ Count("dihedral") = 3 * (N - 1) + (IF N >= 2 THEN N - 2 ELSE 0)
          /\ \A it \in Range(visits) : \A j \in DOMAIN it.ps : it.ps[j] \in AllIdx

C9_Witness == pc = "kick2" /\ N = MaxMonomers /\ Count("dihedral") > 3

(* an angle with its outer particles in increasing order *)
Unordered(it) ==
    IF it.kind = "angle" /\ it.ps[1] > it.ps[3]
    THEN [it EXCEPT !.ps = << it.ps[3], it.ps[2], it.ps[1] >>]
    ELSE it

(* C10: the terms calcPotentialEnergies has summed are, up to the order of *)
(* the outer particles of an angle, the calls of calculateForces with the  *)
(* same particles and the same parameter, each once; dumpStats and         *)
(* dumpEnergies change no particle.                                        *)
C10_EnergyPassMirrorsForcePass ==
    /\ [](evisits # << >> =>
             /\ Len(evisits) = Len(ForcePass)
             /\ Cardinality({Unordered(it) : it \in Range(evisits)}) = Len(evisits)
             /\ {Unordered(it) : it \in Range(evisits)} = {Unordered(it) : it \in Range(ForcePass)})
    /\ [][(dumpStats \/ dumpEnergies) => mem' = mem]_vars

C10_Witness == evisits # << >> /\ N = MaxMonomers /\ pc = "idle"

(* The forces of m are those one force pass computes at the positions of m *)
ForcesCurrent(m) ==
    \E fs \in FieldSamples :
       \E r \in {ApplyPass(Pass(ResetForces(m), "none"), ForcePass, 1, fs)} :
          r[1].crash = "none" => \A i \in DOMAIN m : m[i].F = r[1].mem[i].F

(* C11: at the entry of every stepWorld call, the first one after          *)
(* allocWorld and fillWorld included, each particle's force accumulator    *)
(* equals the net force of the force field at the current positions, so    *)
(* that the first half velocity update uses F(t).                          *)
C11_StepEntersWithCurrentForces ==
    (pc = "idle" /\ Stepping /\ crash = "none") => ForcesCurrent(mem)

(* the same statement for every step but the first one                     *)
C11_LaterStepsEnterWithCurrentForces ==
    (pc = "idle" /\ Stepping /\ crash = "none" /\ steps >= 1) => ForcesCurrent(mem)


Next ==
    \/ allocWorld
    \/ fillWorld
    \/ placeAtRest
    \/ freeWorld
    \/ verlet_kick1
    \/ forces_reset
    \/ forces_interactions
    \/ verlet_kick2
    \/ step_check1
    \/ step_thermostat
    \/ step_check2
    \/ step_clock
    \/ callPhysicsCheck
    \/ dumpStats
    \/ dumpEnergies

Spec == Init /\ [][Next]_vars
====
